---- MODULE Spec2Model ----
(***************************************************************************)
(* FM auditory test (fm_modulation_streamlit_app.py).                      *)
(*                                                                         *)
(* Two specifications over one set of variables:                           *)
(*   Spec    the synthesis function generate_fm_tone applied to arguments  *)
(*           drawn from small sets, with the sidebar's 2 Hz / 40 Hz        *)
(*           buttons changing the session state in between;                *)
(*   SpecUI  the Streamlit script: one action per widget interaction,      *)
(*           each action being one rerun of the script.                    *)
(*                                                                         *)
(* Numbers.  The code computes in float64; the model computes in fixed     *)
(* point with 32-bit integers:                                             *)
(*   amplitudes (tone, window, max_abs)  in units of 1/S,                  *)
(*   angles                              in whole degrees (Turn per cycle),*)
(*   depth                               in units of 1/DepthDen,           *)
(*   fm_hz                               in units of 1/FmDen Hz,           *)
(*   inst_freq                           in units of 1/FUnit Hz,           *)
(*   phase                               in units of 1/(FUnit*sr) cycle.   *)
(* Strings of the code that are not ASCII are transliterated:              *)
(*   ear:   "both" / "left_only" / "right_only"                            *)
(*   label: "not_yet" (the placeholder) / "FM_on" / "FM_off"               *)
(***************************************************************************)
EXTENDS Integers, Sequences, FiniteSets

VARIABLES
    call,               \* arguments of the generate_fm_tone call (Spec)
    ncalls,             \* how many times that call has been made and returned
    locals,             \* the local variables of the latest call's body
    wav,                \* the bytes it returned, as header fields + payload
    called_under,       \* history: the session fm_hz values the calls ran under
    sr, freq, dur_ms,   \* sidebar number_input values
    ear,                \* sidebar radio value
    fm_hz,              \* st.session_state["fm_hz"] (slider key)
    depth,              \* st.session_state["depth"] (select_slider key)
    last_random_label,  \* st.session_state["last_random_label"]
    played,             \* what this run of the script handed to st.audio
    last_random_with_fm \* history: with_fm of the latest random trial

vars ==
    <<call, ncalls, locals, wav, called_under, sr, freq, dur_ms, ear, fm_hz,
      depth, last_random_label, played, last_random_with_fm>>

session ==
    <<fm_hz, depth, last_random_label>>

widgets ==
    <<sr, freq, dur_ms, ear>>

engine ==
    <<call, ncalls, locals, wav, called_under>>

-----------------------------------------------------------------------------
(* Fixed-point units *)

S ==
    1000

Turn ==
    360

DepthDen ==
    100

FmDen ==
    2

FUnit ==
    S * DepthDen

-----------------------------------------------------------------------------
(* Bounds of the arguments drawn for Spec *)

MaxFreq ==
    4

MaxDurSteps ==
    6

MaxCalls ==
    2

SampleRates ==
    {8, 12}

FmRates ==
    {0, 1, 4}

Depths ==
    {0, 50, 100, 150}

Ears ==
    {"both", "left_only", "right_only"}

-----------------------------------------------------------------------------
(* Arithmetic helpers *)

Abs(x) ==
    IF x < 0 THEN -x ELSE x

\* int(x / y) of Python, and the float -> integer conversion of astype:
\* the quotient truncated toward zero (y > 0).
TruncDiv(x, y) ==
    IF x >= 0 THEN x \div y ELSE -((-x) \div y)

\* round(x / y): the nearest integer, a tie going to the even one (y > 0).
RoundDiv(x, y) ==
    LET q == x \div y
        r == x % y
    IN  IF 2 * r < y THEN q
        ELSE IF 2 * r > y THEN q + 1
        ELSE IF q % 2 = 0 THEN q ELSE q + 1

Size(f) ==
    Cardinality(DOMAIN f)

MaxOf(set) ==
    CHOOSE m \in set : \A x \in set : x <= m

\* The angle num/den of a cycle (den > 0), reduced to [0, Turn) degrees.
AngleDeg(num, den) ==
    ((num % den) * Turn) \div den

\* np.sin of an angle of a degrees, in units of 1/S: Bhaskara's rational
\* approximation on each half cycle, sin(p) ~ 16 p (180-p) / (5*180^2 - 4 p (180-p)),
\* exact at 0, 30, 90, 150 and 180 degrees, |error| < 0.002 elsewhere.
Sin(a) ==
    LET r == a % Turn
        h == Turn \div 2
        p == IF r <= h THEN r ELSE r - h
        q == p * (h - p)
        v == RoundDiv(16 * q * S, 5 * h * h - 4 * q)
    IN  IF r <= h THEN v ELSE -v

Cos(a) ==
    Sin(a + Turn \div 4)

-----------------------------------------------------------------------------
(* generate_fm_tone, stage by stage *)

\* A variant that rounds the quotient instead of truncating it.
n_samples_rounded(p_sr, p_dur_ms) ==
    LET n == RoundDiv(p_sr * p_dur_ms, 1000)
    IN  IF n <= 0 THEN 1 ELSE n

\* Lines 109-111.
n_samples(p_sr, p_dur_ms) ==
    LET n == TruncDiv(p_sr * p_dur_ms, 1000)
    IN  IF n <= 0 THEN 1 ELSE n

\* np.arange(n_samples): the sample indices; t[n] = n / sr.
arange(n) ==
    0 .. (n - 1)

\* A variant of the test of line 114 that forgets the depth.
modulated_any_depth(p_fm_hz, p_depth, p_with_fm) ==
    p_with_fm /\ p_fm_hz > 0

\* The test of line 114.
modulated(p_fm_hz, p_depth, p_with_fm) ==
    p_with_fm /\ p_fm_hz > 0 /\ p_depth > 0

\* A variant that reads the module-level fm_hz (the slider's session value)
\* instead of the parameter that shadows it.
inst_freq_global(p_sr, p_freq, p_fm_hz, p_depth, n) ==
    p_freq * (FUnit + p_depth * Sin(AngleDeg(fm_hz * n, FmDen * p_sr)))

\* Line 116: inst_freq[n] = freq * (1 + depth * sin(2 pi fm_hz t[n])),
\* in units of 1/FUnit Hz.
inst_freq(p_sr, p_freq, p_fm_hz, p_depth, n) ==
    p_freq * (FUnit + p_depth * Sin(AngleDeg(p_fm_hz * n, FmDen * p_sr)))

\* np.cumsum(x)[n] = x[0] + ... + x[n].
RECURSIVE cumsum(_, _)
cumsum(x, n) ==
    IF n = 0 THEN x[0] ELSE cumsum(x, n - 1) + x[n]

\* A variant with the closed form f(t) * t in place of the running sum.
phase_closed_form(p_sr, p_freq, p_dur_ms, p_fm_hz, p_depth, p_with_fm) ==
    LET N == n_samples(p_sr, p_dur_ms)
    IN  IF modulated(p_fm_hz, p_depth, p_with_fm)
        THEN [n \in arange(N) |->
                 inst_freq(p_sr, p_freq, p_fm_hz, p_depth, n) * n]
        ELSE [n \in arange(N) |-> p_freq * n * FUnit]

\* The argument of np.sin at sample n, as a fraction of a cycle in units of
\* 1/(FUnit*sr): 2 pi cumsum(inst_freq) / sr in the FM branch (line 118),
\* 2 pi freq t otherwise (line 121).
phase(p_sr, p_freq, p_dur_ms, p_fm_hz, p_depth, p_with_fm) ==
    LET N == n_samples(p_sr, p_dur_ms)
        f == [n \in arange(N) |-> inst_freq(p_sr, p_freq, p_fm_hz, p_depth, n)]
    IN  IF modulated(p_fm_hz, p_depth, p_with_fm)
        THEN [n \in arange(N) |-> cumsum(f, n)]
        ELSE [n \in arange(N) |-> p_freq * n * FUnit]

\* Lines 119 and 121: np.sin of the phase, before the window.
sine(ph, p_sr) ==
    [n \in DOMAIN ph |-> Sin(AngleDeg(ph[n], FUnit * p_sr))]

\* np.hanning(N)[n] = 0.5 - 0.5 cos(2 pi n / (N-1)), in units of 1/(2S).
hanning(N, n) ==
    S - Cos(AngleDeg(n, N - 1))

\* Lines 124-126: the taper, applied when there are more than 3 samples.
windowed(x) ==
    LET N == Size(x)
    IN  IF N > 3
        THEN [n \in DOMAIN x |-> TruncDiv(x[n] * hanning(N, n), 2 * S)]
        ELSE x

\* tone as it stands after line 126.
tone(p_sr, p_freq, p_dur_ms, p_fm_hz, p_depth, p_with_fm) ==
    windowed(sine(phase(p_sr, p_freq, p_dur_ms, p_fm_hz, p_depth, p_with_fm),
                  p_sr))

\* A variant that takes the largest sample instead of the largest magnitude.
max_abs_signed(x) ==
    LET m == MaxOf({x[n] : n \in DOMAIN x})
    IN  IF m * (1000000000 \div S) < 1 THEN S ELSE m

\* Lines 129-131: the peak, replaced by 1.0 when below 1e-9.
\* (max_abs / S < 1 / 10^9  iff  max_abs * (10^9 / S) < 1.)
max_abs(x) ==
    LET m == MaxOf({Abs(x[n]) : n \in DOMAIN x})
    IN  IF m * (1000000000 \div S) < 1 THEN S ELSE m

\* A variant that rounds to the nearest integer.
astype_int16_rounded(num, den) ==
    RoundDiv(num, den)

\* astype(np.int16) of the float num/den (line 135): the fraction is dropped,
\* toward zero.  The conversion is defined only for results in
\* -32768..32767; QuantizerInputInRange shows no other value reaches it.
astype_int16(num, den) ==
    TruncDiv(num, den)

\* Lines 132-135: audio = (tone / max_abs * 32767).astype(np.int16).
audio(x) ==
    LET m == max_abs(x)
    IN  [n \in DOMAIN x |-> astype_int16(x[n] * 32767, m)]

zeros_like(a) ==
    [n \in DOMAIN a |-> 0]

left(a, p_ear) ==
    IF p_ear = "left_only" THEN a
    ELSE IF p_ear = "right_only" THEN zeros_like(a)
    ELSE a

\* A variant that never silences the right channel.
right_never_silent(a, p_ear) ==
    IF p_ear = "right_only" THEN a ELSE a

right(a, p_ear) ==
    IF p_ear = "left_only" THEN zeros_like(a)
    ELSE IF p_ear = "right_only" THEN a
    ELSE a

\* A variant that allocates len(audio) samples and keeps one channel.
stereo_one_channel(a, p_ear) ==
    left(a, p_ear)

\* Lines 149-151: stereo[0::2] = left, stereo[1::2] = right.
stereo(a, p_ear) ==
    LET l == left(a, p_ear)
        r == right(a, p_ear)
    IN  [i \in 0 .. (2 * Size(a) - 1) |->
            IF i % 2 = 0 THEN l[i \div 2] ELSE r[i \div 2]]

\* ndarray.tobytes() of an int16 array: two bytes per sample, low byte
\* first, negative values in two's complement.
tobytes(st) ==
    [k \in 0 .. (2 * Size(st) - 1) |->
        LET u == st[k \div 2] % 65536
        IN  IF k % 2 = 0 THEN u % 256 ELSE u \div 256]

\* Length of the header the wave module writes for PCM data.
HeaderLen ==
    44

\* The fields wave.open(buf, "wb") writes ahead of the frames.
wave_header(nchannels, sampwidth, framerate, datalen) ==
    [ riff_size   |-> HeaderLen - 8 + datalen,
      format_tag  |-> 1,
      nchannels   |-> nchannels,
      framerate   |-> framerate,
      byterate    |-> framerate * nchannels * sampwidth,
      blockalign  |-> nchannels * sampwidth,
      bits        |-> 8 * sampwidth,
      data_len    |-> datalen ]

\* No bytes: nothing has been returned.
NoWav ==
    [header |-> wave_header(0, 0, 0, 0), data |-> <<>>]

\* len(buf.getvalue()).
wav_len(w) ==
    HeaderLen + Size(w.data)

\* The ranges the sidebar widgets enforce (lines 32-34, 60-71).
InRange(p_sr, p_freq, p_dur_ms, p_fm_hz, p_depth) ==
    /\ p_sr \in 8000 .. 48000
    /\ p_freq \in 200 .. 4000
    /\ p_dur_ms \in 100 .. 4000
    /\ p_fm_hz >= 0
    /\ p_depth \in 0 .. DepthDen

\* A variant that rejects out-of-range arguments before synthesizing.
generate_fm_tone_validating(p_sr, p_freq, p_dur_ms, p_fm_hz, p_depth, p_with_fm, p_ear) ==
    IF InRange(p_sr, p_freq, p_dur_ms, p_fm_hz, p_depth)
    THEN LET x    == tone(p_sr, p_freq, p_dur_ms, p_fm_hz, p_depth, p_with_fm)
             data == tobytes(stereo(audio(x), p_ear))
         IN  [header |-> wave_header(2, 2, p_sr, Size(data)), data |-> data]
    ELSE NoWav

\* Lines 96-159.
generate_fm_tone(p_sr, p_freq, p_dur_ms, p_fm_hz, p_depth, p_with_fm, p_ear) ==
    LET x    == tone(p_sr, p_freq, p_dur_ms, p_fm_hz, p_depth, p_with_fm)
        data == tobytes(stereo(audio(x), p_ear))
    IN  [header |-> wave_header(2, 2, p_sr, Size(data)), data |-> data]

-----------------------------------------------------------------------------
(* The sidebar and the buttons (one action = one rerun of the script) *)

\* number_input(min, max, default): the bounds and the default of each.
SrValues ==
    {8000, 44100, 48000}

FreqValues ==
    {200, 500, 4000}

DurValues ==
    {100, 1000, 4000}

\* Slider positions between 0.5 and 100.0 Hz, in units of 1/FmDen Hz.
FmSliderValues ==
    {1, 4, 80, 200}

\* Lines 69-71, in units of 1/DepthDen.
depth_options ==
    {1, 2, 3, 4, 5, 6, 7, 8, 9, 10, 20, 30, 40, 50}

\* A variant with the two labels exchanged.
random_label_swapped(p_with_fm) ==
    IF p_with_fm THEN "FM_off" ELSE "FM_on"

\* Line 198.
random_label(p_with_fm) ==
    IF p_with_fm THEN "FM_on" ELSE "FM_off"

\* Nothing handed to st.audio in this run.
NoAudio ==
    [button |-> "none", with_fm |-> FALSE, sr |-> 0, freq |-> 0, dur_ms |-> 0,
     fm_hz |-> 0, depth |-> 0, ear |-> "both", header |-> NoWav.header]

\* st.audio(generate_fm_tone(sr, freq, dur_ms, fm_hz, depth, with_fm, ear)):
\* the arguments of the call and the header of the bytes it returns.  The
\* frames themselves (4 bytes each, 800 to 192000 of them for the widgets'
\* ranges) are not carried in SpecUI.
Audio(button, p_with_fm) ==
    [button |-> button, with_fm |-> p_with_fm, sr |-> sr, freq |-> freq,
     dur_ms |-> dur_ms, fm_hz |-> fm_hz, depth |-> depth, ear |-> ear,
     header |-> wave_header(2, 2, sr, 4 * n_samples(sr, dur_ms))]

SetSr(v) ==
    /\ v # sr
    /\ sr' = v
    /\ played' = NoAudio
    /\ UNCHANGED <<engine, freq, dur_ms, ear, session, last_random_with_fm>>

SetFreq(v) ==
    /\ v # freq
    /\ freq' = v
    /\ played' = NoAudio
    /\ UNCHANGED <<engine, sr, dur_ms, ear, session, last_random_with_fm>>

SetDur(v) ==
    /\ v # dur_ms
    /\ dur_ms' = v
    /\ played' = NoAudio
    /\ UNCHANGED <<engine, sr, freq, ear, session, last_random_with_fm>>

SetEar(v) ==
    /\ v # ear
    /\ ear' = v
    /\ played' = NoAudio
    /\ UNCHANGED <<engine, sr, freq, dur_ms, session, last_random_with_fm>>

\* Lines 53-54.
Set2Hz ==
    /\ fm_hz' = 4
    /\ played' = NoAudio
    /\ UNCHANGED <<engine, widgets, depth, last_random_label, last_random_with_fm>>

\* Lines 56-57.
Set40Hz ==
    /\ fm_hz' = 80
    /\ played' = NoAudio
    /\ UNCHANGED <<engine, widgets, depth, last_random_label, last_random_with_fm>>

\* Lines 60-66: the slider writes its value under the key "fm_hz".
SliderFm(v) ==
    /\ v # fm_hz
    /\ fm_hz' = v
    /\ played' = NoAudio
    /\ UNCHANGED <<engine, widgets, depth, last_random_label, last_random_with_fm>>

\* Lines 77-83.
SliderDepth(v) ==
    /\ v # depth
    /\ depth' = v
    /\ played' = NoAudio
    /\ UNCHANGED <<engine, widgets, fm_hz, last_random_label, last_random_with_fm>>

\* Lines 184-186.
PlayFlat ==
    /\ played' = Audio("flat", FALSE)
    /\ UNCHANGED <<engine, widgets, session, last_random_with_fm>>

\* Lines 189-191.
PlayFM ==
    /\ played' = Audio("fm", TRUE)
    /\ UNCHANGED <<engine, widgets, session, last_random_with_fm>>

\* Lines 194-201; b is random.getrandbits(1).
PlayRandom(b) ==
    /\ last_random_label' = random_label(b)
    /\ played' = Audio("random", b)
    /\ last_random_with_fm' = <<b>>
    /\ UNCHANGED <<engine, widgets, fm_hz, depth>>

-----------------------------------------------------------------------------
(* Spec: generate_fm_tone applied to drawn arguments *)

Inputs ==
    [ sr      : SampleRates,
      freq    : 0 .. MaxFreq,
      dur_ms  : {k * 100 : k \in 0 .. MaxDurSteps},
      fm_hz   : FmRates,
      depth   : Depths,
      with_fm : BOOLEAN,
      ear     : Ears ]

NoLocals ==
    [phase |-> <<>>, sine |-> <<>>, tone |-> <<>>, max_abs |-> 0, audio |-> <<>>]

\* The state of a fresh session (lines 32-40, 47-48, 73-75, 180-181).
InitShell ==
    /\ sr = 44100
    /\ freq = 500
    /\ dur_ms = 1000
    /\ ear = "both"
    /\ fm_hz = 4
    /\ depth = 30
    /\ last_random_label = "not_yet"
    /\ played = NoAudio
    /\ last_random_with_fm = <<>>

Init ==
    /\ call \in Inputs
    /\ ncalls = 0
    /\ locals = NoLocals
    /\ wav = NoWav
    /\ called_under = {}
    /\ InitShell

\* One call generate_fm_tone(**call), from its first line to its return.
Generate ==
    /\ ncalls < MaxCalls
    /\ ncalls' = ncalls + 1
    /\ called_under' = called_under \cup {fm_hz}
    /\ LET ph == phase(call.sr, call.freq, call.dur_ms, call.fm_hz,
                       call.depth, call.with_fm)
           x  == tone(call.sr, call.freq, call.dur_ms, call.fm_hz,
                      call.depth, call.with_fm)
       IN  locals' = [phase |-> ph, sine |-> sine(ph, call.sr), tone |-> x,
                      max_abs |-> max_abs(x), audio |-> audio(x)]
    /\ wav' = generate_fm_tone(call.sr, call.freq, call.dur_ms, call.fm_hz,
                               call.depth, call.with_fm, call.ear)
    /\ UNCHANGED <<call, widgets, session, played, last_random_with_fm>>

Next ==
    \/ Generate
    \/ Set2Hz
    \/ Set40Hz

Spec ==
    Init /\ [][Next]_vars

-----------------------------------------------------------------------------
(* SpecUI: the script, rerun on every interaction *)

IdleCall ==
    [sr |-> 8, freq |-> 0, dur_ms |-> 0, fm_hz |-> 0, depth |-> 0,
     with_fm |-> FALSE, ear |-> "both"]

InitUI ==
    /\ call = IdleCall
    /\ ncalls = 0
    /\ locals = NoLocals
    /\ wav = NoWav
    /\ called_under = {}
    /\ InitShell

NextUI ==
    \/ \E v \in SrValues : SetSr(v)
    \/ \E v \in FreqValues : SetFreq(v)
    \/ \E v \in DurValues : SetDur(v)
    \/ \E v \in Ears : SetEar(v)
    \/ Set2Hz
    \/ Set40Hz
    \/ \E v \in FmSliderValues : SliderFm(v)
    \/ \E v \in depth_options : SliderDepth(v)
    \/ PlayFlat
    \/ PlayFM
    \/ \E b \in BOOLEAN : PlayRandom(b)

SpecUI ==
    InitUI /\ [][NextUI]_vars

-----------------------------------------------------------------------------
(* Reading a returned container back *)

Frames(w) ==
    Size(w.data) \div 4

\* The int16 samples of the payload: low byte first, two's complement.
Decoded(w) ==
    [i \in 0 .. ((Size(w.data) \div 2) - 1) |->
        LET u == w.data[2 * i] + 256 * w.data[2 * i + 1]
        IN  IF u >= 32768 THEN u - 65536 ELSE u]

LeftOf(w) ==
    [n \in 0 .. (Frames(w) - 1) |-> Decoded(w)[2 * n]]

RightOf(w) ==
    [n \in 0 .. (Frames(w) - 1) |-> Decoded(w)[2 * n + 1]]

Returned ==
    ncalls > 0

Peak(x) ==
    MaxOf({Abs(x[n]) : n \in DOMAIN x})

CallModulated ==
    call.with_fm /\ call.fm_hz > 0 /\ call.depth > 0

-----------------------------------------------------------------------------
(* C1 *)

FloorFrames ==
    LET q == (call.sr * call.dur_ms) \div 1000
    IN  IF q = 0 THEN 1 ELSE q

RoundFrames ==
    LET q == RoundDiv(call.sr * call.dur_ms, 1000)
    IN  IF q = 0 THEN 1 ELSE q

\* C1 as stated: the call synthesizes round(sr * dur_ms / 1000) samples,
\* 1 when that is 0, and never an empty buffer.
C1_RoundedCount ==
    Returned =>
        /\ Size(locals.tone) = RoundFrames
        /\ Frames(wav) = RoundFrames
        /\ Frames(wav) >= 1

\* C1 amended: the call synthesizes floor(sr * dur_ms / 1000) samples (the
\* quotient is truncated, not rounded), 1 when that is 0, and never an
\* empty buffer.
C1_TruncatedCount ==
    Returned =>
        /\ Size(locals.tone) = FloorFrames
        /\ Size(locals.audio) = FloorFrames
        /\ Frames(wav) = FloorFrames
        /\ Frames(wav) >= 1

\* A call whose quotient has a fraction above one half has returned.
C1_Witness ==
    /\ Returned
    /\ (call.sr * call.dur_ms) % 1000 > 500
    /\ Frames(wav) = (call.sr * call.dur_ms) \div 1000
    /\ Frames(wav) >= 2

-----------------------------------------------------------------------------
(* C2 *)

\* C2: the payload is [L0,R0,L1,R1,...] of length 2N over the quantized mono
\* buffer M = audio: left_only gives L = M and R = 0, right_only gives L = 0
\* and R = M, both gives L = R = M.
C2_Routing ==
    Returned =>
        LET M == locals.audio
            N == Size(M)
            L == LeftOf(wav)
            R == RightOf(wav)
        IN  /\ Size(Decoded(wav)) = 2 * N
            /\ DOMAIN L = DOMAIN M
            /\ DOMAIN R = DOMAIN M
            /\ call.ear = "left_only" =>
                   \A n \in DOMAIN M : L[n] = M[n] /\ R[n] = 0
            /\ call.ear = "right_only" =>
                   \A n \in DOMAIN M : L[n] = 0 /\ R[n] = M[n]
            /\ call.ear = "both" =>
                   \A n \in DOMAIN M : L[n] = M[n] /\ R[n] = M[n]

\* A left-only call over a buffer with positive and negative samples.
C2_Witness ==
    /\ Returned
    /\ call.ear = "left_only"
    /\ \E n \in DOMAIN locals.audio : locals.audio[n] < 0
    /\ \E n \in DOMAIN locals.audio : locals.audio[n] > 0
    /\ \A n \in DOMAIN locals.audio : RightOf(wav)[n] = 0

-----------------------------------------------------------------------------
(* C3 *)

\* The value handed to astype lies in the range where the conversion is
\* defined: |tone[n] / max_abs * 32767| <= 32767.
QuantizerInputInRange ==
    Returned =>
        \A n \in DOMAIN locals.tone :
            Abs(locals.tone[n]) * 32767 <= 32767 * locals.max_abs

Saturate(v) ==
    IF v > 32767 THEN 32767 ELSE IF v < -32768 THEN -32768 ELSE v

\* C3 as stated: every sample is round(s * 32767), rounded to nearest and
\* saturated at -32768 / 32767, for s = tone[n] / max_abs.
C3_RoundToNearest ==
    Returned =>
        \A n \in DOMAIN locals.tone :
            locals.audio[n] =
                Saturate(RoundDiv(locals.tone[n] * 32767, locals.max_abs))

\* C3 amended: every normalized sample s = tone[n] / max_abs lies in [-1,1]
\* and is mapped to s * 32767 with its fraction dropped (toward zero), a
\* value in -32767..32767; nothing outside the range reaches the quantizer.
C3_TruncateTowardZero ==
    /\ QuantizerInputInRange
    /\ Returned =>
        \A n \in DOMAIN locals.tone :
            LET v == locals.tone[n] * 32767
                m == locals.max_abs
            IN  /\ locals.audio[n] =
                       (IF v >= 0 THEN v \div m ELSE -((-v) \div m))
                /\ locals.audio[n] \in -32767 .. 32767

\* A sample whose scaled value has a fraction above one half, positive or
\* negative, has been quantized.
C3_Witness ==
    /\ Returned
    /\ \E n \in DOMAIN locals.tone :
           /\ locals.tone[n] < 0
           /\ 2 * ((Abs(locals.tone[n]) * 32767) % locals.max_abs)
                  > locals.max_abs
    /\ \E n \in DOMAIN locals.tone :
           /\ locals.tone[n] > 0
           /\ 2 * ((locals.tone[n] * 32767) % locals.max_abs)
                  > locals.max_abs

-----------------------------------------------------------------------------
(* C4 *)

CallInRange ==
    InRange(call.sr, call.freq, call.dur_ms, call.fm_hz, call.depth)

\* C4 as stated: a call with an out-of-range argument fails before any
\* synthesis and produces no buffer and no container.
C4_RejectsOutOfRange ==
    (Returned /\ ~CallInRange) =>
        /\ wav = NoWav
        /\ locals.tone = <<>>

\* C4 amended: generate_fm_tone validates nothing: for every sr >= 1 and
\* non-negative freq, dur_ms, fm_hz and depth, in range or not, the call
\* returns a complete stereo container of N >= 1 frames, N being 1 when
\* sr * dur_ms / 1000 is below 1.
C4_NoValidation ==
    Returned =>
        /\ wav # NoWav
        /\ wav.header.nchannels = 2
        /\ Frames(wav) = FloorFrames
        /\ Frames(wav) >= 1
        /\ wav.header.data_len = Size(wav.data)

\* A call with sr, freq and depth all out of range has returned a container.
C4_Witness ==
    /\ Returned
    /\ ~(call.sr \in 8000 .. 48000)
    /\ ~(call.freq \in 200 .. 4000)
    /\ call.depth > DepthDen
    /\ call.dur_ms = 0
    /\ Frames(wav) = 1

-----------------------------------------------------------------------------
(* C5 *)

\* C5: a call with with_fm = TRUE and depth = 0 or fm_hz = 0 has the phase
\* and the pre-window waveform of, and returns the same bytes as, the call
\* with with_fm = FALSE and the other arguments unchanged.
C5_ZeroModulationIsFlat ==
    (Returned /\ call.with_fm /\ (call.depth = 0 \/ call.fm_hz = 0)) =>
        LET flat == phase(call.sr, call.freq, call.dur_ms, call.fm_hz,
                          call.depth, FALSE)
        IN  /\ locals.phase = flat
            /\ locals.sine = sine(flat, call.sr)
            /\ wav = generate_fm_tone(call.sr, call.freq, call.dur_ms,
                                      call.fm_hz, call.depth, FALSE, call.ear)

\* An FM call of depth 0 at a positive FM rate has returned an audible tone.
C5_Witness ==
    /\ Returned
    /\ call.with_fm
    /\ call.depth = 0
    /\ call.fm_hz > 0
    /\ call.freq > 0
    /\ \E n \in DOMAIN locals.audio : locals.audio[n] # 0

-----------------------------------------------------------------------------
(* C6 *)

-----------------------------------------------------------------------------
(* C7 *)

\* C7: the returned bytes are a 44-byte header and 4 bytes per synthesized
\* sample, 44 + 4N in all; the header declares 2 channels, 16 bits, the
\* sample rate of the call and a data chunk of 4N bytes.
C7_ContainerLayout ==
    Returned =>
        LET N == Size(locals.audio)
        IN  /\ N >= 1
            /\ wav_len(wav) = 44 + 4 * N
            /\ Size(wav.data) = 4 * N
            /\ wav.header.nchannels = 2
            /\ wav.header.bits = 16
            /\ wav.header.framerate = call.sr
            /\ wav.header.data_len = 4 * N
            /\ wav.header.riff_size = 36 + 4 * N
            /\ wav.header.blockalign = 4
            /\ wav.header.byterate = 4 * call.sr

\* A container of several frames has been returned.
C7_Witness ==
    /\ Returned
    /\ Size(locals.audio) >= 4
    /\ wav_len(wav) = 44 + 4 * Size(locals.audio)

-----------------------------------------------------------------------------
(* C8 *)

-----------------------------------------------------------------------------
(* C9 *)

\* f(t_k) of the request: freq * (1 + depth * sin(2 pi fm_hz t_k)) when FM is
\* requested, freq otherwise, in units of 1/FUnit Hz.
FreqAt(k) ==
    IF call.with_fm
    THEN call.freq * (FUnit + call.depth
                        * Sin(AngleDeg(call.fm_hz * k, FmDen * call.sr)))
    ELSE call.freq * FUnit

RECURSIVE InclusiveSum(_)
InclusiveSum(n) ==
    IF n = 0 THEN FreqAt(0) ELSE InclusiveSum(n - 1) + FreqAt(n)

NonDecreasing(ph) ==
    \A n \in DOMAIN ph : n > 0 => ph[n] >= ph[n - 1]

\* C9 as stated: for every request the phase at sample n is the inclusive
\* sum f(t_0) + ... + f(t_n) (so phase(0) is f(t_0), not 0), and the phase
\* never decreases when depth <= 1 and freq > 0.
C9_InclusiveSumAlways ==
    Returned =>
        /\ \A n \in DOMAIN locals.phase : locals.phase[n] = InclusiveSum(n)
        /\ (call.depth <= DepthDen /\ call.freq > 0) =>
               NonDecreasing(locals.phase)

\* C9 amended: in the FM branch (with_fm, fm_hz > 0, depth > 0) the phase at
\* sample n is the inclusive sum f(t_0) + ... + f(t_n), so phase(0) is
\* f(t_0); in every other request it is freq * n, the sum without its last
\* term, so phase(0) is 0; in both the phase never decreases when depth <= 1
\* and freq > 0.
C9_InclusiveSumWhenModulated ==
    Returned =>
        /\ CallModulated =>
               \A n \in DOMAIN locals.phase :
                   locals.phase[n] = InclusiveSum(n)
        /\ ~CallModulated =>
               \A n \in DOMAIN locals.phase :
                   /\ locals.phase[n] = call.freq * FUnit * n
                   /\ locals.phase[n] = InclusiveSum(n) - FreqAt(n)
        /\ (call.depth <= DepthDen /\ call.freq > 0) =>
               NonDecreasing(locals.phase)

\* An FM call of full depth over several samples has returned, its phase
\* starting at f(t_0) > 0 and standing still over one step.
C9_Witness ==
    /\ Returned
    /\ CallModulated
    /\ call.depth = DepthDen
    /\ call.freq > 0
    /\ Size(locals.phase) >= 3
    /\ locals.phase[0] = FreqAt(0)
    /\ locals.phase[0] > 0
    /\ \E n \in DOMAIN locals.phase : n > 0 /\ locals.phase[n] = locals.phase[n - 1]

-----------------------------------------------------------------------------
(* C10 *)

LabelMatchesLastRandom ==
    /\ last_random_label = "not_yet" <=> last_random_with_fm = <<>>
    /\ last_random_with_fm # <<>> =>
           last_random_label =
               (IF Head(last_random_with_fm) THEN "FM_on" ELSE "FM_off")
    /\ played.button = "random" =>
           /\ last_random_with_fm = <<played.with_fm>>
           /\ last_random_label =
                  (IF played.with_fm THEN "FM_on" ELSE "FM_off")

\* C10: last_random_label is the placeholder exactly while no random trial
\* has run, and otherwise names the with_fm passed to the synthesis of the
\* latest random trial; a run that is not a random trial (the flat and FM
\* buttons, 2 Hz / 40 Hz, any parameter change) leaves it unchanged.
C10_LastRandomLabel ==
    /\ []LabelMatchesLastRandom
    /\ [][played'.button # "random" =>
              /\ last_random_label' = last_random_label
              /\ last_random_with_fm' = last_random_with_fm]_vars

\* After a random trial that drew FM, the flat button has been pressed under
\* changed parameters and the label still reads FM.
C10_Witness ==
    /\ played.button = "flat"
    /\ last_random_with_fm = <<TRUE>>
    /\ last_random_label = "FM_on"
    /\ fm_hz = 80
    /\ depth # 30
    /\ sr # 44100

====
